---- MODULE Spec2Model ----
(***************************************************************************)
(* Model of the Google Sheets automation script of GSheetKen: the combined *)
(* onEdit handler (status-driven row transfer and control-list sync),      *)
(* syncSheets, createNewSheet, backupSheetData and manualSync, over a      *)
(* spreadsheet modelled as named grids of cells.                           *)
(***************************************************************************)
EXTENDS Integers, Sequences, FiniteSets, TLC

(***************************************************************************)
(* CONFIG and the literals of the script                                   *)
(***************************************************************************)
controlSheet == "DataValidation"
dataSaverSheet == "DataSaver"
nameStartRow == 2
nameEndRow == 10
nameColumn == 1
StatusColumn == 5
protectedSheets == <<controlSheet, dataSaverSheet, "Sheet1">>

White == "#ffffff"
HeaderBg == "#f3f3f3"
RecordBg == "#fff2cc"
Timestamp == "<date>"
formSheet == "Data_Base"
FormRangeWidth == 25
DataBelow == "--- Data Below ---"
NoData == "(No data to backup)"

(***************************************************************************)
(* Bounds of the model                                                     *)
(***************************************************************************)
MaxEvents == 2
MaxCtlRow == 3
MaxBurst == 2
MaxDispatch == 1
MaxFormRows == 3
MaxSubmits == 2
MaxTriggers == 2
MaxTriggerEdits == 1
MaxQueued == 2
MaxActiveEdits == 1

(***************************************************************************)
(* Cells, rows and grids.  A cell has a value and a background; a grid is  *)
(* the sequence of its rows, a row the sequence of its cells.  Cells that  *)
(* were never written are blank, so a grid is kept without trailing blank  *)
(* cells and rows.                                                         *)
(***************************************************************************)
Blank == [v |-> "", bg |-> White]

Max(a, b) == IF a >= b THEN a ELSE b

RangeOf(s) == {s[i] : i \in 1..Len(s)}

CellAt(g, r, c) ==
  IF r \in 1..Len(g) /\ c \in 1..Len(g[r]) THEN g[r][c] ELSE Blank

RowHasContent(row) == \E c \in 1..Len(row) : row[c].v # ""

\* Sheet.getLastRow(): the position of the last row that has content
getLastRow(g) ==
  LET used == {r \in 1..Len(g) : RowHasContent(g[r])}
  IN IF used = {} THEN 0 ELSE CHOOSE r \in used : \A q \in used : q <= r

\* Sheet.getLastColumn(): the position of the last column that has content
getLastColumn(g) ==
  LET used == {c \in UNION {1..Len(g[r]) : r \in 1..Len(g)} :
                 \E r \in 1..Len(g) : c <= Len(g[r]) /\ g[r][c].v # ""}
  IN IF used = {} THEN 0 ELSE CHOOSE c \in used : \A q \in used : q <= c

TrimRow(row) ==
  LET used == {c \in 1..Len(row) : row[c] # Blank}
      n == IF used = {} THEN 0 ELSE CHOOSE c \in used : \A q \in used : q <= c
  IN SubSeq(row, 1, n)

TrimGrid(g) ==
  LET rows == [r \in 1..Len(g) |-> TrimRow(g[r])]
      used == {r \in 1..Len(rows) : rows[r] # <<>>}
      n == IF used = {} THEN 0 ELSE CHOOSE r \in used : \A q \in used : q <= r
  IN SubSeq(rows, 1, n)

\* Range.getValues() of getRange(r, c, nr, nc): nr rows of nc values
getValues(g, r, c, nr, nc) ==
  [i \in 1..nr |-> [j \in 1..nc |-> CellAt(g, r + i - 1, c + j - 1).v]]

\* Range.getBackgrounds() of getRange(r, c, nr, nc)
getBackgrounds(g, r, c, nr, nc) ==
  [i \in 1..nr |-> [j \in 1..nc |-> CellAt(g, r + i - 1, c + j - 1).bg]]

InRange(i, j, r, c, m) ==
  /\ i \in r..(r + Len(m) - 1)
  /\ Len(m) > 0
  /\ j \in c..(c + Len(m[i - r + 1]) - 1)

GridWidth(g, r, c, m) ==
  LET ws == {Len(g[i]) : i \in 1..Len(g)} \cup {c + Len(m[i]) - 1 : i \in 1..Len(m)} \cup {0}
  IN CHOOSE w \in ws : \A q \in ws : q <= w

\* Range.setValues(m) on the range whose top left cell is (r, c)
setValues(g, r, c, m) ==
  TrimGrid([i \in 1..Max(Len(g), r + Len(m) - 1) |->
             [j \in 1..GridWidth(g, r, c, m) |->
                IF InRange(i, j, r, c, m)
                  THEN [CellAt(g, i, j) EXCEPT !.v = m[i - r + 1][j - c + 1]]
                  ELSE CellAt(g, i, j)]])

\* Range.setBackgrounds(m) on the range whose top left cell is (r, c)
setBackgrounds(g, r, c, m) ==
  TrimGrid([i \in 1..Max(Len(g), r + Len(m) - 1) |->
             [j \in 1..GridWidth(g, r, c, m) |->
                IF InRange(i, j, r, c, m)
                  THEN [CellAt(g, i, j) EXCEPT !.bg = m[i - r + 1][j - c + 1]]
                  ELSE CellAt(g, i, j)]])

\* Range.setValue(val) on the single cell (r, c)
setValue(g, r, c, val) == setValues(g, r, c, <<<<val>>>>)

\* Sheet.appendRow(rowContents): the values go below the last row with content
appendRow(g, vals) == setValues(g, getLastRow(g) + 1, 1, <<vals>>)

\* Sheet.deleteRow(rowPosition): the rows below move up by one
deleteRow(g, r) ==
  IF r \in 1..Len(g)
    THEN TrimGrid([i \in 1..(Len(g) - 1) |-> IF i < r THEN g[i] ELSE g[i + 1]])
    ELSE g

(***************************************************************************)
(* A run of a handler.  st is the spreadsheet as the handler has changed   *)
(* it so far: sh maps every existing sheet name to its grid, ord is the    *)
(* order of the tabs (Spreadsheet.getSheets()), log the calls made, and ok *)
(* turns FALSE when a call throws: the script catches nothing, so every    *)
(* later statement of the handler is skipped.  fault names the one call of *)
(* the spreadsheet service that fails in this run, if any.                 *)
(***************************************************************************)
NoFault == [op |-> "none", sheet |-> ""]

Entry(op, name) == [op |-> op, sheet |-> name]

Note(st, op, name) ==
  IF st.ok THEN [st EXCEPT !.log = Append(@, Entry(op, name))] ELSE st

Throw(st, op, name) ==
  IF st.ok
    THEN [st EXCEPT !.ok = FALSE, !.log = Append(@, Entry("throw:" \o op, name))]
    ELSE st

\* One call of the spreadsheet service on sheet `name`, leaving grid g there.
Write(st, fault, op, key, name, g) ==
  IF ~st.ok THEN st
  ELSE IF fault = Entry(op, key) THEN Throw(st, op, key)
  ELSE [st EXCEPT !.sh = [@ EXCEPT ![name] = g], !.log = Append(@, Entry(op, key))]

\* Spreadsheet.insertSheet(name): throws when a sheet of that name exists
insertSheet(st, fault, name) ==
  IF ~st.ok THEN st
  ELSE IF fault = Entry("insertSheet", name) \/ name \in DOMAIN st.sh
    THEN Throw(st, "insertSheet", name)
  ELSE [st EXCEPT !.sh = [n \in DOMAIN st.sh \cup {name} |->
                            IF n = name THEN <<>> ELSE st.sh[n]],
                  !.ord = Append(@, name),
                  !.log = Append(@, Entry("insertSheet", name))]

\* deleteSheet as it would run if the failure of the backup were swallowed
deleteSheetAnyway(st, fault, name) ==
  [st EXCEPT !.sh = [n \in DOMAIN st.sh \ {name} |-> st.sh[n]],
             !.ord = SelectSeq(@, LAMBDA n : n # name),
             !.log = Append(@, Entry("deleteSheet", name))]

\* Spreadsheet.deleteSheet(sheet)
deleteSheet(st, fault, name) ==
  IF ~st.ok THEN st
  ELSE IF fault = Entry("deleteSheet", name) THEN Throw(st, "deleteSheet", name)
  ELSE [st EXCEPT !.sh = [n \in DOMAIN st.sh \ {name} |-> st.sh[n]],
                  !.ord = SelectSeq(@, LAMBDA n : n # name),
                  !.log = Append(@, Entry("deleteSheet", name))]

\* createNewSheet(ss, newSheetName): insertSheet, then the new (active) sheet
\* is moved to the end of the tabs
createNewSheet(st, fault, newSheetName) ==
  LET s1 == insertSheet(st, fault, newSheetName)
  IN IF ~s1.ok THEN s1
     ELSE IF fault = Entry("moveActiveSheet", newSheetName)
       THEN Throw(s1, "moveActiveSheet", newSheetName)
     ELSE [s1 EXCEPT !.ord = Append(SelectSeq(@, LAMBDA n : n # newSheetName),
                                    newSheetName)]

\* A write of backupSheetData or syncSheets to the DataSaver sheet: the call
\* (op), the top left cell of its range, and the values or backgrounds set
ValuesAt(op, r, c, m) == [op |-> op, row |-> r, col |-> c, m |-> m, bgs |-> FALSE]
BackgroundsAt(op, r, c, m) == [op |-> op, row |-> r, col |-> c, m |-> m, bgs |-> TRUE]

Written(g, w) ==
  IF w.bgs THEN setBackgrounds(g, w.row, w.col, w.m) ELSE setValues(g, w.row, w.col, w.m)

\* The writes in the order of the script; the first that throws ends the run
RECURSIVE ApplyWrites(_, _, _, _, _)
ApplyWrites(st, fault, key, writes, i) ==
  IF i > Len(writes) \/ ~st.ok THEN st
  ELSE ApplyWrites(Write(st, fault, writes[i].op, key, dataSaverSheet,
                         Written(st.sh[dataSaverSheet], writes[i])),
                   fault, key, writes, i + 1)

\* HasData as it would be if the data were copied whatever the source holds
HasDataAlways(lastRow, lastColumn) == TRUE

\* "Copy all data from the source sheet if it has data"
HasData(lastRow, lastColumn) == lastRow > 0 /\ lastColumn > 0

\* The writes of backupSheetData(sourceSheet, dataSaverSheet), nextRow being
\* dataSaverSheet.getLastRow() + 1 at its start
BackupWrites(src, sheetName, nextRow) ==
  LET lastRow == getLastRow(src)
      lastColumn == getLastColumn(src)
  IN << ValuesAt("setTimestamp", nextRow, 1, <<<<Timestamp>>>>),
        ValuesAt("setName", nextRow, 2, <<<<sheetName>>>>),
        ValuesAt("setMarker", nextRow, 3, <<<<DataBelow>>>>),
        BackgroundsAt("setStyle", nextRow, 1, <<<<RecordBg, RecordBg, RecordBg>>>>) >>
     \o (IF HasData(lastRow, lastColumn)
           THEN << ValuesAt("setValues", nextRow + 1, 1,
                            getValues(src, 1, 1, lastRow, lastColumn)),
                   BackgroundsAt("setBackgrounds", nextRow + 1, 1,
                                 getBackgrounds(src, 1, 1, lastRow, lastColumn)) >>
           ELSE << ValuesAt("setNoData", nextRow + 1, 1, <<<<NoData>>>>) >>)
     \o << ValuesAt("setSeparator", nextRow + lastRow + 2, 1, <<<<"">>>>) >>

\* backupSheetData as it would be if the record started on the last used
\* row of the DataSaver sheet
backupSheetDataOverLast(st, fault, sheetName) ==
  IF ~st.ok THEN st
  ELSE Note(ApplyWrites(st, fault, sheetName,
                        BackupWrites(st.sh[sheetName], sheetName,
                                     getLastRow(st.sh[dataSaverSheet])), 1),
            "backupSheetData", sheetName)

\* backupSheetData(sourceSheet, dataSaverSheet)
backupSheetData(st, fault, sheetName) ==
  IF ~st.ok THEN st
  ELSE Note(ApplyWrites(st, fault, sheetName,
                        BackupWrites(st.sh[sheetName], sheetName,
                                     getLastRow(st.sh[dataSaverSheet]) + 1), 1),
            "backupSheetData", sheetName)

\* names: the values of A2:A10 of the control sheet, flattened, "" filtered out
ControlNames(g) ==
  LET col == [i \in 1..(nameEndRow - nameStartRow + 1) |->
                CellAt(g, nameStartRow + i - 1, nameColumn).v]
  IN SelectSeq(col, LAMBDA name : name # "")

Includes(seq, x) == \E i \in 1..Len(seq) : seq[i] = x

\* Step 1 of syncSheets: names.forEach(create when not among the existing names)
\* ToCreate as it would be if protected names were never created
ToCreateUnprotected(existingSheetNames, name) ==
  ~Includes(existingSheetNames, name) /\ ~Includes(protectedSheets, name)

\* The test of step 1: the name is not among the existing sheet names
ToCreate(existingSheetNames, name) == ~Includes(existingSheetNames, name)

RECURSIVE CreateMissing(_, _, _, _, _)
CreateMissing(st, fault, names, existingSheetNames, i) ==
  IF i > Len(names) \/ ~st.ok THEN st
  ELSE CreateMissing(
         IF ToCreate(existingSheetNames, names[i])
           THEN createNewSheet(st, fault, names[i])
           ELSE st,
         fault, names, existingSheetNames, i + 1)

\* ToDelete with "Sheet1" left out of the protected names
ToDeleteSheet1(names, sheetName) ==
  ~Includes(names, sheetName) /\ sheetName # controlSheet /\ sheetName # dataSaverSheet

\* ToDelete without the test of the protected names
ToDeleteUnprotected(names, sheetName) == ~Includes(names, sheetName)

\* ToDelete without the test of the names list
ToDeleteListed(names, sheetName) == ~Includes(protectedSheets, sheetName)

\* The test of step 2: not in the names list and not a protected sheet
ToDelete(names, sheetName) ==
  ~Includes(names, sheetName) /\ ~Includes(protectedSheets, sheetName)

\* Step 2 of syncSheets: allSheets.forEach(backup, then delete)
\* The callback of step 2 without its backup
DeleteOnly(st, fault, sheetName) == deleteSheet(st, fault, sheetName)

\* "Backup data before deletion", then "Delete the sheet"
BackupAndDelete(st, fault, sheetName) ==
  deleteSheet(backupSheetData(st, fault, sheetName), fault, sheetName)

RECURSIVE DeleteUnlisted(_, _, _, _, _)
DeleteUnlisted(st, fault, names, allSheets, i) ==
  IF i > Len(allSheets) \/ ~st.ok THEN st
  ELSE DeleteUnlisted(
         IF ToDelete(names, allSheets[i])
           THEN BackupAndDelete(st, fault, allSheets[i])
           ELSE st,
         fault, names, allSheets, i + 1)

\* "Get or create DataSaver sheet": the new sheet gets its bold grey headers
GetOrCreateDataSaver(st, fault) ==
  IF dataSaverSheet \in DOMAIN st.sh THEN st
  ELSE ApplyWrites(insertSheet(st, fault, dataSaverSheet), fault, dataSaverSheet,
         << ValuesAt("setHeaders", 1, 1,
                     <<<<"Deleted Date", "Sheet Name", "Data Starts Below">>>>),
            BackgroundsAt("setHeaderStyle", 1, 1, <<<<HeaderBg, HeaderBg, HeaderBg>>>>) >>, 1)

\* SyncSteps with step 2 given the names that step 1 had to create
SyncStepsNewNames(s1, fault, names) ==
  DeleteUnlisted(CreateMissing(s1, fault, names, s1.ord, 1), fault,
                 SelectSeq(names, LAMBDA n : ~Includes(s1.ord, n)), s1.ord, 1)

\* Steps 1 and 2 on s1, the spreadsheet once the DataSaver sheet is there;
\* allSheets and existingSheetNames are read once, before step 1
SyncSteps(s1, fault, names) ==
  DeleteUnlisted(CreateMissing(s1, fault, names, s1.ord, 1), fault, names, s1.ord, 1)

\* syncSheets with the DataSaver sheet created before the control sheet is
\* looked up
syncSheetsSaverFirst(st, fault) ==
  IF ~st.ok THEN st
  ELSE IF controlSheet \notin DOMAIN st.sh
    THEN Note(GetOrCreateDataSaver(st, fault), "alert", controlSheet)
  ELSE Note(SyncSteps(GetOrCreateDataSaver(Note(st, "syncSheets", ""), fault), fault,
                      ControlNames(st.sh[controlSheet])),
            "syncCompleted", "")

\* syncSheets()
syncSheets(st, fault) ==
  IF ~st.ok THEN st
  ELSE IF controlSheet \notin DOMAIN st.sh
    THEN Note(st, "alert", controlSheet)
  ELSE Note(SyncSteps(GetOrCreateDataSaver(Note(st, "syncSheets", ""), fault), fault,
                      ControlNames(st.sh[controlSheet])),
            "syncCompleted", "")

\* manualSync()
manualSync(st, fault) == Note(syncSheets(st, fault), "alert", "synced")

\* DeleteMoved with the row below the edited one deleted
DeleteBelow(a, fault, e) ==
  Write(a, fault, "deleteRow", e.active, e.active, deleteRow(a.sh[e.active], e.row + 1))

\* DeleteMoved with the last row of the sheet deleted
DeleteLast(a, fault, e) ==
  Write(a, fault, "deleteRow", e.active, e.active,
        deleteRow(a.sh[e.active], getLastRow(a.sh[e.active])))

\* sheet.deleteRow(editedRow), when appendRow has returned
DeleteMoved(a, fault, e) ==
  Write(a, fault, "deleteRow", e.active, e.active, deleteRow(a.sh[e.active], e.row))

\* MoveRow with the row read up to the status column
MoveRowStatusWidth(st, fault, e, statusVal) ==
  IF getLastColumn(st.sh[e.active]) = 0 THEN Throw(st, "getRange", e.active)
  ELSE DeleteMoved(
         Write(st, fault, "appendRow", statusVal, statusVal,
               appendRow(st.sh[statusVal],
                         getValues(st.sh[e.active], e.row, 1, 1, StatusColumn)[1])),
         fault, e)

\* "Get row data and move it": the row of the active sheet, as wide as the
\* sheet's last column, is appended to the target and deleted from the source
MoveRow(st, fault, e, statusVal) ==
  IF getLastColumn(st.sh[e.active]) = 0 THEN Throw(st, "getRange", e.active)
  ELSE DeleteMoved(
         Write(st, fault, "appendRow", statusVal, statusVal,
               appendRow(st.sh[statusVal],
                         getValues(st.sh[e.active], e.row, 1, 1,
                                   getLastColumn(st.sh[e.active]))[1])),
         fault, e)

\* SyncOnEdit without the bounds of the rows
SyncOnEditAnyRow(st, fault, e) ==
  IF e.active = controlSheet /\ e.col = nameColumn
    THEN syncSheets(st, fault)
    ELSE st

\* FUNCTIONALITY 2 of onEdit: sync when the edit is in the control range
SyncOnEdit(st, fault, e) ==
  IF e.active = controlSheet /\ e.col = nameColumn
     /\ e.row >= nameStartRow /\ e.row <= nameEndRow
    THEN syncSheets(st, fault)
    ELSE st

\* onEdit with the row deleted before the target sheet is looked up
onEditDeleteFirst(st, fault, e) ==
  LET statusVal == CellAt(st.sh[e.sheet], e.row, e.col).v
  IN IF e.col = StatusColumn /\ statusVal # ""
       THEN IF statusVal \notin DOMAIN st.sh
              THEN Note(DeleteMoved(st, fault, e), "alert", statusVal)
              ELSE SyncOnEdit(MoveRow(st, fault, e, statusVal), fault, e)
       ELSE SyncOnEdit(st, fault, e)

\* onEdit without the test of an empty status value
onEditMoveEmpty(st, fault, e) ==
  LET statusVal == CellAt(st.sh[e.sheet], e.row, e.col).v
  IN IF e.col = StatusColumn
       THEN IF statusVal \notin DOMAIN st.sh
              THEN Note(st, "alert", statusVal)
              ELSE SyncOnEdit(MoveRow(st, fault, e, statusVal), fault, e)
       ELSE SyncOnEdit(st, fault, e)

\* onEdit(e): e.sheet is the sheet of e.range, e.active the active sheet,
\* e.row and e.col the first row and column of e.range
onEdit(st, fault, e) ==
  LET statusVal == CellAt(st.sh[e.sheet], e.row, e.col).v
  IN IF e.col = StatusColumn /\ statusVal # ""
       THEN IF statusVal \notin DOMAIN st.sh
              THEN Note(st, "alert", statusVal)
              ELSE SyncOnEdit(MoveRow(st, fault, e, statusVal), fault, e)
       ELSE SyncOnEdit(st, fault, e)

(***************************************************************************)
(* The spreadsheets the runs start from, and what the user may type        *)
(***************************************************************************)
Cell(val, bg) == [v |-> val, bg |-> bg]

DataRow(id, bg, status) == <<Cell(id, bg), Blank, Blank, Blank, Cell(status, White)>>

OrdersGrid ==
  << DataRow("o1", "#ff0000", "Orders"),
     DataRow("o2", White, "Orders") \o <<Cell("note", "#00ff00")>>,
     DataRow("o3", White, "Orders") >>

ShippedGrid == << DataRow("s1", White, "Shipped"), DataRow("s2", "#0000ff", "Shipped") >>

ControlGrid(list) == <<<<Cell("Sheet names", White)>>>> \o [i \in 1..Len(list) |-> <<Cell(list[i], White)>>]

SaverGrid == << <<Cell("Deleted Date", HeaderBg), Cell("Sheet Name", HeaderBg),
                  Cell("Data Starts Below", HeaderBg)>> >>

\* The spreadsheets at the start: the list in A2.. of the control sheet, and
\* whether the DataSaver sheet, Sheet1 and the control sheet are there
InitConfigs ==
  { [list |-> <<"Orders", "Shipped">>, saver |-> TRUE, sheet1 |-> TRUE, control |-> TRUE],
    [list |-> <<"Shipped">>, saver |-> FALSE, sheet1 |-> FALSE, control |-> TRUE],
    [list |-> <<>>, saver |-> TRUE, sheet1 |-> TRUE, control |-> TRUE],
    [list |-> <<"New", "New">>, saver |-> TRUE, sheet1 |-> FALSE, control |-> TRUE],
    [list |-> <<>>, saver |-> FALSE, sheet1 |-> TRUE, control |-> FALSE] }

StatusVals == {"", "Shipped", "Nope"}
CtlVals == {"", "New", "Sheet1"}
DataSheets == {"Orders", "Shipped"}
FaultOps == {"appendRow", "deleteRow", "insertSheet", "deleteSheet", "setTimestamp", "setValues"}

InitOrder(cfg) ==
  (IF cfg.sheet1 THEN <<"Sheet1">> ELSE <<>>)
    \o (IF cfg.control THEN <<controlSheet>> ELSE <<>>)
    \o <<"Orders", "Shipped">>
    \o (IF cfg.saver THEN <<dataSaverSheet>> ELSE <<>>)

InitSheets(cfg) ==
  [n \in RangeOf(InitOrder(cfg)) |->
     CASE n = controlSheet -> ControlGrid(cfg.list)
       [] n = "Orders" -> OrdersGrid
       [] n = "Shipped" -> ShippedGrid
       [] n = dataSaverSheet -> SaverGrid
       [] OTHER -> <<>>]

\* The cells the user edits: the status cell of a used row of a data sheet,
\* and the cells A2.. of the control sheet
Edits(sh) ==
  {[sheet |-> s, row |-> r, col |-> StatusColumn, val |-> v] :
     s \in DataSheets \cap DOMAIN sh, r \in 1..getLastRow(OrdersGrid), v \in StatusVals}
  \cup {[sheet |-> controlSheet, row |-> r, col |-> nameColumn, val |-> v] :
          r \in (nameStartRow..MaxCtlRow) \cap 1..(IF controlSheet \in DOMAIN sh THEN MaxCtlRow ELSE 0),
          v \in CtlVals}

Start(sh, ord) == [sh |-> sh, ord |-> ord, log |-> <<>>, ok |-> TRUE]

\* The calls of a run that the spreadsheet service may fail
Faults(run) == {NoFault} \cup {run.log[i] : i \in {k \in 1..Len(run.log) : run.log[k].op \in FaultOps}}

(***************************************************************************)
(* State: the spreadsheet, and the record of the last handler run          *)
(***************************************************************************)
VARIABLES
  sheets,    \* sheet name -> grid, for the sheets that exist
  order,     \* the tabs in order
  ev,        \* the last event handled
  pre,       \* the sheets when its handler started
  preOrder,  \* the tabs when its handler started
  log,       \* the calls its handler made
  ok,        \* FALSE when its handler ended by an exception
  rerun,     \* TRUE when it ran on the very spreadsheet a completed sync had left
  nEvents,   \* events handled so far
  sleeping,  \* runs of onEdit that are inside Utilities.sleep(500)
  passes,    \* runs of syncSheets made by the runs of onEdit that have slept
  triggers,  \* the handler functions of the project's installable triggers
  queue      \* the edits made whose run of onEdit has not started

vars == <<sheets, order, ev, pre, preOrder, log, ok, rerun, nEvents, sleeping, passes,
          triggers, queue>>

Init ==
  \E cfg \in InitConfigs :
    /\ sheets = InitSheets(cfg)
    /\ order = InitOrder(cfg)
    /\ ev = [kind |-> "none", sheet |-> "", row |-> 0, col |-> 0, fault |-> NoFault]
    /\ pre = sheets
    /\ preOrder = order
    /\ log = <<>>
    /\ ok = TRUE
    /\ rerun = FALSE
    /\ nEvents = 0
    /\ sleeping = 0
    /\ passes = 0
    /\ triggers = <<>>
    /\ queue = <<>>

\* A handler run from its start to its end, the 500 ms of sleep included: no
\* other run starts meanwhile.  The model follows a behaviour up to its first
\* run with a failing call.
Finish(kind, e, fault, before, run) ==
  /\ sheets' = run.sh
  /\ order' = run.ord
  /\ ev' = [kind |-> kind, sheet |-> e.sheet, row |-> e.row, col |-> e.col, fault |-> fault]
  /\ pre' = before
  /\ preOrder' = order
  /\ log' = run.log
  /\ ok' = run.ok
  /\ rerun' = (Includes(log, Entry("syncCompleted", "")) /\ before = sheets)
  /\ nEvents' = IF fault = NoFault THEN nEvents + 1 ELSE MaxEvents
  /\ UNCHANGED <<sleeping, passes, triggers, queue>>

Typed(e) == [sheets EXCEPT ![e.sheet] = setValue(@, e.row, e.col, e.val)]

EditEvent(e) == [sheet |-> e.sheet, active |-> e.sheet, row |-> e.row, col |-> e.col]

CanEdit(e) ==
  /\ e.sheet \in DOMAIN sheets
  /\ e.col = StatusColumn => e.row <= getLastRow(sheets[e.sheet])

NoCell == [sheet |-> "", row |-> 0, col |-> 0, val |-> ""]

\* The run of the handler of an event on the spreadsheet `before`
Outcome(kind, before, e, fault) ==
  IF kind = "edit"
    THEN onEdit(Start(before, order), fault, EditEvent(e))
    ELSE manualSync(Start(before, order), fault)

\* The user types e.val into cell (e.row, e.col) of e.sheet, which is the
\* active sheet; the host then runs onEdit(e) to its end
UserEdit ==
  /\ nEvents < MaxEvents
  /\ \E e \in Edits(sheets) :
       /\ CanEdit(e)
       /\ \E before \in {Typed(e)} :
            \E run \in {Outcome("edit", before, e, NoFault)} :
              Finish("edit", e, NoFault, before, run)

\* The same, with one call of the spreadsheet service failing in onEdit
FailedEdit ==
  /\ nEvents < MaxEvents
  /\ \E e \in Edits(sheets) :
       /\ CanEdit(e)
       /\ \E before \in {Typed(e)} :
            \E fault \in Faults(Outcome("edit", before, e, NoFault)) \ {NoFault} :
              \E run \in {Outcome("edit", before, e, fault)} :
                Finish("edit", e, fault, before, run)

\* The user picks "Sync Sheets Now" in the menu
ManualSync ==
  /\ nEvents < MaxEvents
  /\ \E run \in {Outcome("manualSync", sheets, NoCell, NoFault)} :
       Finish("manualSync", NoCell, NoFault, sheets, run)

\* The same, with one call of the spreadsheet service failing
FailedSync ==
  /\ nEvents < MaxEvents
  /\ \E fault \in Faults(Outcome("manualSync", sheets, NoCell, NoFault)) \ {NoFault} :
       \E run \in {Outcome("manualSync", sheets, NoCell, fault)} :
         Finish("manualSync", NoCell, fault, sheets, run)

Next == UserEdit \/ FailedEdit \/ ManualSync \/ FailedSync

Spec == Init /\ [][Next]_vars

(***************************************************************************)
(* A burst of edits to the control range.  Every edit starts its own run   *)
(* of onEdit; an edit of column A is not a status edit, so the run goes    *)
(* straight to Utilities.sleep(500), and calls syncSheets when it wakes.   *)
(* The edits of a burst all come before the first run wakes.               *)
(***************************************************************************)
ControlEdits(sh) == {e \in Edits(sh) : e.sheet = controlSheet}

\* The user types into A2.. of the control sheet; onEdit(e) runs up to its sleep
BurstEdit ==
  /\ nEvents < MaxBurst
  /\ passes = 0
  /\ \E e \in ControlEdits(sheets) :
       /\ CanEdit(e)
       /\ sheets' = Typed(e)
       /\ ev' = [kind |-> "edit", sheet |-> e.sheet, row |-> e.row, col |-> e.col,
                 fault |-> NoFault]
  /\ sleeping' = sleeping + 1
  /\ nEvents' = nEvents + 1
  /\ UNCHANGED <<order, pre, preOrder, log, ok, rerun, passes, triggers, queue>>

\* A sleeping run of onEdit wakes and calls syncSheets()
Wake ==
  /\ sleeping > 0
  /\ \E run \in {syncSheets(Start(sheets, order), NoFault)} :
       /\ sheets' = run.sh
       /\ order' = run.ord
       /\ log' = run.log
       /\ ok' = run.ok
  /\ pre' = sheets
  /\ preOrder' = order
  /\ sleeping' = sleeping - 1
  /\ passes' = passes + 1
  /\ UNCHANGED <<ev, rerun, nEvents, triggers, queue>>

DebounceNext == BurstEdit \/ Wake

DebounceSpec == Init /\ [][DebounceNext]_vars

(***************************************************************************)
(* One edit of any cell: inside and outside the control range, in the      *)
(* status column and in other columns                                      *)
(***************************************************************************)
DispatchRows == {nameStartRow - 1, nameStartRow, nameEndRow, nameEndRow + 1}
DispatchCols == {nameColumn, nameColumn + 1, StatusColumn}
DispatchVals == {"", "Shipped", "New"}

AnyEdits(sh) ==
  {[sheet |-> s, row |-> r, col |-> c, val |-> v] :
     s \in {controlSheet, "Orders"} \cap DOMAIN sh,
     r \in DispatchRows, c \in DispatchCols, v \in DispatchVals}

\* The user types e.val into any cell; the host runs onEdit(e) to its end
AnyEdit ==
  /\ nEvents < MaxDispatch
  /\ \E e \in AnyEdits(sheets) :
       \E before \in {Typed(e)} :
         \E run \in {Outcome("edit", before, e, NoFault)} :
           Finish("edit", e, NoFault, before, run)

DispatchNext == AnyEdit

DispatchSpec == Init /\ [][DispatchNext]_vars

(***************************************************************************)
(* Status edits in any sheet, the control sheet and the DataSaver sheet    *)
(* included, with values that name them, between runs of manualSync        *)
(***************************************************************************)
FrameVals == {"Shipped", controlSheet, dataSaverSheet}

FrameEdits(sh) ==
  {[sheet |-> s, row |-> r, col |-> StatusColumn, val |-> v] :
     s \in DOMAIN sh, r \in 1..getLastRow(OrdersGrid), v \in FrameVals}

\* The user types a sheet name into column E of a row of any sheet
FrameEdit ==
  /\ nEvents < MaxEvents
  /\ \E e \in FrameEdits(sheets) :
       \E before \in {Typed(e)} :
         \E run \in {Outcome("edit", before, e, NoFault)} :
           Finish("edit", e, NoFault, before, run)

FrameNext == FrameEdit \/ ManualSync

FrameSpec == Init /\ [][FrameNext]_vars

(***************************************************************************)
(* Status edits made one after the other before the run of onEdit for the  *)
(* first has started: the runs come afterwards, in the order of the edits. *)
(* The event object of a run has the coordinates of the edited range.      *)
(***************************************************************************)
StatusEdits(sh) == {e \in Edits(sh) : e.col = StatusColumn /\ e.val # ""}

\* The user types a status into a row; no other edit of that row is pending
TypeEdit ==
  /\ nEvents + Len(queue) < MaxQueued
  /\ \E e \in StatusEdits(sheets) :
       /\ CanEdit(e)
       /\ \A i \in 1..Len(queue) : queue[i].sheet = e.sheet => queue[i].row # e.row
       /\ sheets' = Typed(e)
       /\ queue' = Append(queue, [sheet |-> e.sheet, row |-> e.row, col |-> e.col,
                                   val |-> e.val,
                                   id |-> CellAt(sheets[e.sheet], e.row, 1).v])
  /\ UNCHANGED <<order, ev, pre, preOrder, log, ok, rerun, nEvents, sleeping, passes,
                 triggers>>

\* The host runs onEdit(e) for the oldest pending edit
HandleNext ==
  /\ queue # <<>>
  /\ \E run \in {onEdit(Start(sheets, order), NoFault, EditEvent(Head(queue)))} :
       /\ sheets' = run.sh
       /\ order' = run.ord
       /\ log' = run.log
       /\ ok' = run.ok
  /\ ev' = [kind |-> "queued", sheet |-> Head(queue).sheet, row |-> Head(queue).row,
            col |-> Head(queue).col, val |-> Head(queue).val, id |-> Head(queue).id,
            fault |-> NoFault]
  /\ pre' = sheets
  /\ preOrder' = order
  /\ nEvents' = nEvents + 1
  /\ queue' = Tail(queue)
  /\ UNCHANGED <<rerun, sleeping, passes, triggers>>

QueueNext == TypeEdit \/ HandleNext

QueueSpec == Init /\ [][QueueNext]_vars

(***************************************************************************)
(* An edit whose run of onEdit finds another sheet active: e.range is the  *)
(* edited range, e.source.getActiveSheet() the sheet active when it runs   *)
(***************************************************************************)
\* The user types e.val into a cell and the run of onEdit(e) finds the sheet
\* `active` active
EditSeenFrom ==
  /\ nEvents < MaxActiveEdits
  /\ \E e \in Edits(sheets) : \E active \in DOMAIN sheets :
       /\ CanEdit(e)
       /\ \E before \in {Typed(e)} :
            \E run \in {onEdit(Start(before, order), NoFault,
                               [sheet |-> e.sheet, active |-> active,
                                row |-> e.row, col |-> e.col])} :
              /\ sheets' = run.sh
              /\ order' = run.ord
              /\ log' = run.log
              /\ ok' = run.ok
              /\ pre' = before
       /\ ev' = [kind |-> "edit", sheet |-> e.sheet, active |-> active, row |-> e.row,
                 col |-> e.col, fault |-> NoFault]
  /\ preOrder' = order
  /\ nEvents' = nEvents + 1
  /\ UNCHANGED <<rerun, sleeping, passes, triggers, queue>>

ActiveNext == EditSeenFrom

ActiveSpec == Init /\ [][ActiveNext]_vars

(***************************************************************************)
(* The triggers.  The host runs the function named onEdit for every edit   *)
(* (simple trigger), and runs the handler of every installable edit        *)
(* trigger of the project as well.                                         *)
(***************************************************************************)
IsOnEdit(handler) == handler = "onEdit"

\* setupTriggers without the deletion of the existing triggers
setupTriggersKeep(ts) ==
  [triggers |-> Append(ts, "onEdit"),
   log |-> <<Entry("newTrigger", "onEdit"), Entry("alert", "auto-sync")>>]

\* setupTriggers(): the project's triggers and the calls made
setupTriggers(ts) ==
  [triggers |-> Append(SelectSeq(ts, LAMBDA h : ~IsOnEdit(h)), "onEdit"),
   log |-> [i \in 1..Len(SelectSeq(ts, IsOnEdit)) |-> Entry("deleteTrigger", "onEdit")]
             \o <<Entry("newTrigger", "onEdit"), Entry("alert", "auto-sync")>>]

\* n runs of onEdit(e), one after the other; a run that throws ends alone
RECURSIVE RunHandlers(_, _, _)
RunHandlers(st, e, n) ==
  IF n = 0 THEN st
  ELSE RunHandlers(onEdit([st EXCEPT !.ok = TRUE], NoFault, e), e, n - 1)

\* The user picks "Setup Auto-Sync" in the menu
SetupTriggers ==
  /\ Len(triggers) < MaxTriggers
  /\ \E run \in {setupTriggers(triggers)} :
       /\ triggers' = run.triggers
       /\ log' = run.log
  /\ ev' = [kind |-> "setupTriggers", sheet |-> "", row |-> 0, col |-> 0, fault |-> NoFault]
  /\ ok' = TRUE
  /\ pre' = sheets
  /\ preOrder' = order
  /\ UNCHANGED <<sheets, order, rerun, nEvents, sleeping, passes, queue>>

\* The user types e.val into a cell: the simple trigger and every installable
\* trigger whose handler is onEdit run onEdit(e)
TriggeredEdit ==
  /\ nEvents < MaxTriggerEdits
  /\ \E e \in Edits(sheets) :
       /\ CanEdit(e)
       /\ \E before \in {Typed(e)} :
            \E run \in {RunHandlers(Start(before, order), EditEvent(e),
                                    1 + Len(SelectSeq(triggers, IsOnEdit)))} :
              Finish("edit", e, NoFault, before, run)

TriggerNext == SetupTriggers \/ TriggeredEdit

TriggerSpec == Init /\ [][TriggerNext]_vars

(***************************************************************************)
(* The entry form: submitForm(data) on a spreadsheet with the Data_Base    *)
(* sheet, whose rows are records or rows left empty                        *)
(***************************************************************************)
\* The values of the range that submitForm sets
FormRecord(data) ==
  <<Timestamp, data.vendorName, data.mobileNumber, data.suppliedMaterial,
    data.quantity, data.uNit>>

\* emptyRowIndex: the first row of dataRange whose cells are all "", or
\* lastRow + 1
EmptyRowIndex(dataRange, lastRow) ==
  LET empty == {i \in 1..Len(dataRange) :
                  \A c \in 1..Len(dataRange[i]) : dataRange[i][c] = ""}
  IN IF empty = {} THEN lastRow + 1 ELSE CHOOSE i \in empty : \A q \in empty : i <= q

\* submitForm(data).  getRange throws for a range of no row or no column,
\* and setValues throws when the data has not the width of its range.
submitForm(st, fault, data) ==
  IF getLastRow(st.sh[formSheet]) < 1 \/ getLastColumn(st.sh[formSheet]) < 1
    THEN Throw(st, "getRange", formSheet)
  ELSE IF Len(FormRecord(data)) # FormRangeWidth
    THEN Throw(st, "setValues", formSheet)
  ELSE Write(st, fault, "setValues", formSheet, formSheet,
             setValues(st.sh[formSheet],
                       EmptyRowIndex(getValues(st.sh[formSheet], 1, 1,
                                               getLastRow(st.sh[formSheet]),
                                               getLastColumn(st.sh[formSheet])),
                                     getLastRow(st.sh[formSheet])),
                       1, <<FormRecord(data)>>))

FormCells == {Blank, Cell("x", White)}

FormGrids ==
  {TrimGrid(g) : g \in UNION {[1..n -> [1..2 -> FormCells]] : n \in 0..MaxFormRows}}

FormData ==
  {[vendorName |-> v, mobileNumber |-> "m", suppliedMaterial |-> "s",
    quantity |-> "1", uNit |-> "kg"] : v \in {"v1", "v2"}}

FormInit ==
  /\ sheets \in {[n \in {formSheet} |-> g] : g \in FormGrids}
  /\ order = <<formSheet>>
  /\ ev = [kind |-> "none", sheet |-> "", row |-> 0, col |-> 0, fault |-> NoFault]
  /\ pre = sheets
  /\ preOrder = order
  /\ log = <<>>
  /\ ok = TRUE
  /\ rerun = FALSE
  /\ nEvents = 0
  /\ sleeping = 0
  /\ passes = 0
  /\ triggers = <<>>
  /\ queue = <<>>

\* The user submits the form; the host runs submitForm(data) to its end
SubmitForm ==
  /\ nEvents < MaxSubmits
  /\ \E data \in FormData :
       \E run \in {submitForm(Start(sheets, order), NoFault, data)} :
         /\ sheets' = run.sh
         /\ order' = run.ord
         /\ log' = run.log
         /\ ok' = run.ok
         /\ ev' = [kind |-> "submitForm", data |-> data, fault |-> NoFault]
  /\ pre' = sheets
  /\ preOrder' = order
  /\ nEvents' = nEvents + 1
  /\ UNCHANGED <<rerun, sleeping, passes, triggers, queue>>

FormNext == SubmitForm

FormSpec == FormInit /\ [][FormNext]_vars

(***************************************************************************)
(* What the last run did, read from its log and from the spreadsheet       *)
(* before (pre) and after (sheets) it                                      *)
(***************************************************************************)
Done(op) == {log[i].sheet : i \in {k \in 1..Len(log) : log[k].op = op}}
Deleted == Done("deleteSheet")
Created == Done("insertSheet")
PassRan == Includes(log, Entry("syncSheets", ""))
PassCompleted == Includes(log, Entry("syncCompleted", ""))
Protected == RangeOf(protectedSheets)
Listed == IF controlSheet \in DOMAIN pre THEN RangeOf(ControlNames(pre[controlSheet])) ELSE {}
Existing == DOMAIN pre
BackupOps ==
  {"setTimestamp", "setName", "setMarker", "setStyle", "setValues", "setBackgrounds",
   "setNoData", "setSeparator"}
BackupFailedFor(T) ==
  \E i \in 1..Len(log) : log[i].sheet = T /\ \E op \in BackupOps : log[i].op = "throw:" \o op

\* Archive grid a holds a record of sheet `name` with all the cells of grid old
ArchiveHolds(a, name, old) ==
  \E k \in 1..Len(a) :
    /\ CellAt(a, k, 1).v = Timestamp
    /\ CellAt(a, k, 2).v = name
    /\ CellAt(a, k, 3).v = DataBelow
    /\ \A r \in 1..Len(old) : \A c \in 1..Len(old[r]) : CellAt(a, k + r, c) = old[r][c]

StatusTyped == CellAt(pre[ev.sheet], ev.row, ev.col).v
IsStatusEdit == ev.kind = "edit" /\ ev.col = StatusColumn
MoveAttempted == IsStatusEdit /\ StatusTyped # "" /\ StatusTyped \in DOMAIN pre
RowWidth == Max(getLastColumn(pre[ev.sheet]), getLastColumn(sheets[StatusTyped]))
RowValues(g, r) == [c \in 1..RowWidth |-> CellAt(g, r, c).v]
MovedRow == RowValues(pre[ev.sheet], ev.row)

\* C1: every sheet a sync pass deletes was backed up earlier in the pass
\* (backupSheetData returned), and the DataSaver sheet holds a record with
\* all the cells the sheet had when it was deleted.
C1_BackupBeforeDelete ==
  \A i \in 1..Len(log) :
    log[i].op = "deleteSheet" =>
      /\ \E j \in 1..(i - 1) : log[j] = Entry("backupSheetData", log[i].sheet)
      /\ ArchiveHolds(sheets[dataSaverSheet], log[i].sheet, pre[log[i].sheet])

C1_Witness == {"Orders", "Shipped"} \subseteq Deleted

\* C2: a sync pass that completes deletes exactly the sheets that existed,
\* are not in the control list and are not protected.
C2_DeletesExactly == PassCompleted => Deleted = (Existing \ Listed) \ Protected

C2_Witness ==
  /\ PassCompleted
  /\ "Orders" \in Deleted
  /\ "Shipped" \in Listed \cap DOMAIN sheets
  /\ "Sheet1" \in Existing \ Listed

\* C3 as stated: a sync pass that completes creates exactly the listed
\* sheets that did not exist, and no other sheet.
C3_CreatesOnlyListed == PassCompleted => Created = Listed \ Existing

\* C3 amended: a sync pass that completes creates exactly the listed sheets
\* that did not exist and, when the DataSaver sheet did not exist, that sheet.
C3_CreatesListedAndSaver ==
  PassCompleted => Created = (Listed \cup {dataSaverSheet}) \ Existing

C3_Witness == PassCompleted /\ Created = {"Sheet1", dataSaverSheet}

\* C4 as stated: a sync pass neither creates nor deletes the control sheet,
\* the DataSaver sheet or any other protected sheet.
C4_NeverCreatedNorDeleted == PassRan => (Created \cup Deleted) \cap Protected = {}

\* C4 amended: a sync pass deletes no protected sheet (control sheet,
\* DataSaver sheet, Sheet1) and never creates the control sheet; it creates
\* a protected sheet only when no such sheet existed and it is the
\* DataSaver sheet or a name of the control list.
C4_ProtectedKept ==
  PassRan =>
    /\ Deleted \cap Protected = {}
    /\ Protected \cap Existing \subseteq DOMAIN sheets
    /\ controlSheet \notin Created
    /\ Created \cap Protected \subseteq (Listed \cup {dataSaverSheet}) \ Existing

C4_Witness ==
  /\ PassCompleted
  /\ {"Sheet1", dataSaverSheet} \subseteq Created
  /\ Deleted # {}

\* C5: a sync pass run on the very spreadsheet a completed pass has left
\* creates no sheet, deletes no sheet and writes nothing, the DataSaver sheet
\* included.
C5_Idempotent ==
  (rerun /\ PassRan) =>
    /\ Created = {}
    /\ Deleted = {}
    /\ sheets = pre
    /\ order = preOrder
    /\ PassCompleted

C5_Witness == rerun /\ PassCompleted /\ "Orders" \notin DOMAIN sheets /\ "New" \in DOMAIN sheets

\* C6: when backupSheetData fails for a sheet that a sync pass was about to
\* delete, the sheet still exists after the run, with its cells unchanged.
C6_FailedBackupKeepsSheet ==
  \A T \in Existing : BackupFailedFor(T) => T \in DOMAIN sheets /\ sheets[T] = pre[T]

C6_Witness == BackupFailedFor("Orders") /\ getLastRow(pre["Orders"]) > 0

\* C7 as stated: when the backup of one sheet fails, only that sheet's
\* deletion is skipped; every other unlisted, unprotected sheet is still
\* backed up and deleted in the same pass.
C7_OthersStillDeleted ==
  \A T \in Existing :
    BackupFailedFor(T) => Deleted = ((Existing \ Listed) \ Protected) \ {T}

\* C8 as stated: after a status edit naming an existing sheet, the last row
\* of that sheet has the values of the edited row, row r of the source no
\* longer has them, and the rows below r have moved up by one.
C8_RowLeavesIndex ==
  (MoveAttempted /\ ok) =>
    /\ RowValues(sheets[StatusTyped], getLastRow(sheets[StatusTyped])) = MovedRow
    /\ RowValues(sheets[ev.sheet], ev.row) # MovedRow
    /\ \A k \in (ev.row + 1)..getLastRow(pre[ev.sheet]) :
         RowValues(sheets[ev.sheet], k - 1) = RowValues(pre[ev.sheet], k)

\* C8 amended: after a status edit naming an existing sheet, the last row
\* of that sheet has the values of the edited row, the rows of the source
\* above r are unchanged and those below r have moved up by one; the source
\* has one row fewer when the destination is another sheet, and as many
\* rows as before, the moved row last, when the destination is the source.
C8_RowMoved ==
  (MoveAttempted /\ ok) =>
    /\ RowValues(sheets[StatusTyped], getLastRow(sheets[StatusTyped])) = MovedRow
    /\ \A k \in 1..(ev.row - 1) :
         RowValues(sheets[ev.sheet], k) = RowValues(pre[ev.sheet], k)
    /\ \A k \in (ev.row + 1)..getLastRow(pre[ev.sheet]) :
         RowValues(sheets[ev.sheet], k - 1) = RowValues(pre[ev.sheet], k)
    /\ getLastRow(sheets[ev.sheet]) =
         getLastRow(pre[ev.sheet]) - (IF StatusTyped = ev.sheet THEN 0 ELSE 1)
    /\ StatusTyped # ev.sheet =>
         getLastRow(sheets[StatusTyped]) = getLastRow(pre[StatusTyped]) + 1

C8_Witness ==
  /\ MoveAttempted /\ ok
  /\ ev.sheet = "Orders" /\ ev.row = 1 /\ StatusTyped = "Shipped"
  /\ getLastRow(pre["Orders"]) = 3
  /\ getLastRow(pre["Shipped"]) = 2
  /\ getLastRow(sheets["Shipped"]) = 3

\* C9: a status edit to a non-empty value that names no sheet alerts the
\* user and changes nothing: no row appended, none deleted, the edited row
\* in place.
C9_TargetNotFound ==
  (IsStatusEdit /\ StatusTyped # "" /\ StatusTyped \notin DOMAIN pre) =>
    /\ log = <<Entry("alert", StatusTyped)>>
    /\ sheets = pre
    /\ order = preOrder

C9_Witness ==
  /\ IsStatusEdit /\ StatusTyped = "Nope" /\ ev.sheet = "Orders" /\ ev.row = 2
  /\ log = <<Entry("alert", "Nope")>>

RowInDestination ==
  /\ getLastRow(sheets[StatusTyped]) = getLastRow(pre[StatusTyped]) + 1
  /\ RowValues(sheets[StatusTyped], getLastRow(sheets[StatusTyped])) = MovedRow

RowInSource ==
  /\ getLastRow(sheets[ev.sheet]) = getLastRow(pre[ev.sheet])
  /\ RowValues(sheets[ev.sheet], ev.row) = MovedRow

\* C10 as stated: whatever call fails, after a move to another sheet the row
\* is in the destination if and only if it is no longer in the source.
C10_MoveAllOrNothing ==
  (MoveAttempted /\ StatusTyped # ev.sheet) => (RowInDestination <=> ~RowInSource)

(***************************************************************************)
(* The records of the DataSaver sheet                                      *)
(***************************************************************************)
Archive == IF dataSaverSheet \in DOMAIN sheets THEN sheets[dataSaverSheet] ELSE <<>>

\* The DataSaver sheet as the backups of the last run found it
ArchiveStart == IF dataSaverSheet \in DOMAIN pre THEN pre[dataSaverSheet] ELSE SaverGrid

\* The sheets whose backup returned, and the one backed up first
BackedUp == Done("backupSheetData")
FirstBackedUp(T) ==
  \E i \in 1..Len(log) :
    /\ log[i] = Entry("setTimestamp", T)
    /\ \A j \in 1..(i - 1) : log[j].op # "setTimestamp"

BlankRow(a, k) == k > Len(a) \/ ~RowHasContent(a[k])

IsRecordHeader(a, k) == CellAt(a, k, 3).v = DataBelow

\* Row k of a is the header of a record of the sheet `name`
HeaderAt(a, k, name) ==
  /\ <<CellAt(a, k, 1), CellAt(a, k, 2), CellAt(a, k, 3)>> =
       <<Cell(Timestamp, RecordBg), Cell(name, RecordBg), Cell(DataBelow, RecordBg)>>
  /\ \A c \in 4..Len(a[k]) : a[k][c].v = ""

\* The rows below row k of a are the used rows of old, cell by cell
VerbatimBelow(a, k, old) ==
  /\ \A r \in 1..getLastRow(old) : \A c \in 1..getLastColumn(old) :
       CellAt(a, k + r, c) = CellAt(old, r, c)
  /\ \A r \in 1..getLastRow(old) : \A c \in 1..Len(a[k + r]) :
       c > getLastColumn(old) => a[k + r][c].v = ""

\* The rows a record takes: its header, and the data rows or the marker row
RecordRows(old) == 1 + Max(getLastRow(old), 1)

RECURSIVE RowsOf(_)
RowsOf(S) ==
  IF S = {} THEN 0
  ELSE LET T == CHOOSE x \in S : TRUE IN RecordRows(pre[T]) + RowsOf(S \ {T})

NewRows == (getLastRow(ArchiveStart) + 1)..Len(Archive)

\* C11 as stated: the backup of a sheet with rows R puts the header row
\* (timestamp, name, marker) in the first row after the last used row of the
\* DataSaver sheet, then R cell by cell (values and backgrounds) in the rows
\* right below the header, and one blank row follows the last row of R.
C11_ArchiveBlock ==
  \A T \in BackedUp :
    getLastRow(pre[T]) > 0 =>
      \E k \in NewRows :
        /\ HeaderAt(Archive, k, T)
        /\ FirstBackedUp(T) => k = getLastRow(ArchiveStart) + 1
        /\ VerbatimBelow(Archive, k, pre[T])
        /\ BlankRow(Archive, k + getLastRow(pre[T]) + 1)

\* C12: the backup of a sheet without content writes the header row and,
\* right below it, one row that holds the "(No data to backup)" marker and
\* nothing else; setValues is not called for the sheet, and the records of a
\* pass take as many rows as their headers, data rows and marker rows make.
C12_EmptySheetMarker ==
  /\ \A T \in BackedUp :
       getLastRow(pre[T]) = 0 =>
         /\ Entry("setValues", T) \notin RangeOf(log)
         /\ \E k \in NewRows :
              /\ HeaderAt(Archive, k, T)
              /\ CellAt(Archive, k + 1, 1).v = NoData
              /\ \A c \in 2..Len(Archive[k + 1]) : Archive[k + 1][c].v = ""
              /\ CellAt(Archive, k + 2, 1).v # NoData
  /\ (PassCompleted /\ dataSaverSheet \in DOMAIN sheets) =>
       getLastRow(Archive) = getLastRow(ArchiveStart) + RowsOf(BackedUp)

C12_Witness ==
  /\ "New" \in BackedUp \cap Deleted
  /\ getLastRow(pre["New"]) = 0
  /\ \E k \in NewRows : HeaderAt(Archive, k, "New") /\ CellAt(Archive, k + 1, 1).v = NoData

\* C13 as stated: in the DataSaver sheet the header row of every record but
\* the first is right below a blank row, so one blank row separates each
\* record from the next.
C13_RecordsSeparated ==
  \A k \in 2..Len(Archive) :
    (IsRecordHeader(Archive, k) /\ \E j \in 1..(k - 1) : IsRecordHeader(Archive, j)) =>
      /\ BlankRow(Archive, k - 1)
      /\ ~BlankRow(Archive, k - 2)

\* C14 as stated: when a write of backupSheetData fails, the DataSaver sheet
\* holds no row of that record (it holds the records backed up before, and
\* nothing else that is new); when none fails it holds the header and the
\* data of the record (its separator row is the matter of C13).
C14_BackupAtomic ==
  /\ \A T \in Existing :
       BackupFailedFor(T) =>
         getLastRow(Archive) = getLastRow(ArchiveStart) + RowsOf(BackedUp)
  /\ \A T \in BackedUp :
       \E k \in NewRows :
         /\ HeaderAt(Archive, k, T)
         /\ VerbatimBelow(Archive, k, pre[T])


\* C15: when the control sheet does not exist, syncSheets alerts the user and
\* changes nothing: no sheet is created, the DataSaver sheet included, none
\* is deleted, and no cell is written.
C15_MissingControlSheet ==
  (ev.kind = "manualSync" /\ controlSheet \notin DOMAIN pre) =>
    /\ Entry("alert", controlSheet) \in RangeOf(log)
    /\ \A i \in 1..Len(log) : log[i].op = "alert"
    /\ sheets = pre
    /\ order = preOrder

C15_Witness ==
  /\ ev.kind = "manualSync"
  /\ controlSheet \notin DOMAIN pre
  /\ dataSaverSheet \notin DOMAIN sheets
  /\ Entry("alert", controlSheet) \in RangeOf(log)

\* The names that are more than once in the control list
Duplicated ==
  IF controlSheet \in DOMAIN pre
    THEN LET names == ControlNames(pre[controlSheet])
         IN {names[i] : i \in {k \in 1..Len(names) : \E j \in 1..(k - 1) : names[j] = names[k]}}
    ELSE {}

\* C16 as stated: when a name is twice in the control list and no sheet of
\* that name exists, the pass creates the sheet once, skips the second
\* creation, creates the other missing sheets and runs its delete step.
C16_DuplicateSkipped ==
  (PassRan /\ ev.fault = NoFault /\ Duplicated \ Existing # {}) =>
    /\ PassCompleted
    /\ Created = (Listed \cup {dataSaverSheet}) \ Existing
    /\ Deleted = (Existing \ Listed) \ Protected

\* C17 as stated: the edits of a burst, all made before the first run of
\* onEdit wakes from its sleep, cause one run of syncSheets.
C17_OnePassPerBurst == (sleeping = 0 /\ nEvents >= 1) => passes = 1

InControlRange ==
  /\ ev.sheet = controlSheet
  /\ ev.col = nameColumn
  /\ ev.row >= nameStartRow
  /\ ev.row <= nameEndRow

MigrationRan ==
  \E i \in 1..Len(log) :
    log[i].op \in {"alert", "appendRow", "deleteRow", "throw:appendRow", "throw:getRange"}

\* C18: the run of onEdit for an edit moves a row or alerts that the target
\* is missing exactly when the edit is in column 5 (and its value is not
\* empty), runs syncSheets exactly when the edit is in column 1 of the
\* control sheet in rows nameStartRow..nameEndRow, and otherwise makes no
\* call and changes no sheet.
C18_Dispatch ==
  ev.kind = "edit" =>
    /\ MigrationRan <=> (ev.col = StatusColumn /\ StatusTyped # "")
    /\ (ev.col = StatusColumn /\ StatusTyped \in DOMAIN pre /\ StatusTyped # "") =>
         Entry("appendRow", StatusTyped) \in RangeOf(log)
    /\ PassRan <=> InControlRange
    /\ (ev.col # StatusColumn /\ ~InControlRange) =>
         log = <<>> /\ sheets = pre /\ order = preOrder

C18_Witness ==
  /\ ev.kind = "edit" /\ ev.sheet = controlSheet /\ ev.col = nameColumn
  /\ ev.row = nameEndRow + 1
  /\ StatusTyped = "New"
  /\ "New" \notin DOMAIN sheets
  /\ "Orders" \in DOMAIN sheets /\ "Orders" \notin Listed
  /\ log = <<>>

\* C19: a sync pass deletes only sheets that existed when it started: no
\* sheet it has created, and no sheet whose name is in the control list;
\* the listed sheets that existed are still there with their cells.
C19_Snapshot ==
  PassRan =>
    /\ Created \cap Deleted = {}
    /\ Deleted \subseteq Existing
    /\ Deleted \cap Listed = {}
    /\ \A T \in (Listed \cap Existing) \ {dataSaverSheet} :
         T \in DOMAIN sheets /\ sheets[T] = pre[T]

C19_Witness ==
  /\ PassCompleted
  /\ "New" \in Created
  /\ "Orders" \in Deleted
  /\ "Shipped" \in Listed \cap DOMAIN sheets

\* C20: when the edit is in the status column and the cell is empty, onEdit
\* appends no row and deletes none: it makes no call and changes no sheet.
C20_EmptyStatusNoOp ==
  (IsStatusEdit /\ StatusTyped = "") =>
    /\ log = <<>>
    /\ ok
    /\ sheets = pre
    /\ order = preOrder

C20_Witness ==
  /\ IsStatusEdit /\ StatusTyped = ""
  /\ ev.sheet = "Orders" /\ ev.row = 2
  /\ getLastRow(sheets["Orders"]) = 3
  /\ log = <<>>

\* The rows of grid g that hold the values `row`
RowsWith(g, row) == {k \in 1..getLastRow(g) : RowValues(g, k) = row}

\* C21: after a status edit whose value names the sheet of the edited row,
\* the sheet has as many rows as before, every row of values is in it as
\* many times as before, and the edited row is its last row.
C21_SelfMove ==
  (MoveAttempted /\ ok /\ StatusTyped = ev.sheet) =>
    /\ getLastRow(sheets[ev.sheet]) = getLastRow(pre[ev.sheet])
    /\ \A k \in 1..getLastRow(pre[ev.sheet]) :
         Cardinality(RowsWith(sheets[ev.sheet], RowValues(pre[ev.sheet], k))) =
           Cardinality(RowsWith(pre[ev.sheet], RowValues(pre[ev.sheet], k)))
    /\ RowValues(sheets[ev.sheet], getLastRow(sheets[ev.sheet])) = MovedRow
    /\ DOMAIN sheets = DOMAIN pre
    /\ \A T \in DOMAIN pre \ {ev.sheet} : sheets[T] = pre[T]

C21_Witness ==
  /\ MoveAttempted /\ ok
  /\ ev.sheet = "Shipped" /\ StatusTyped = "Shipped" /\ ev.row = 1
  /\ getLastRow(pre["Shipped"]) = 3
  /\ CellAt(sheets["Shipped"], 3, 1).v = CellAt(pre["Shipped"], 1, 1).v

\* The next empty row of grid g: the first row within the used rows that
\* has no content, or the row after the last used row
NextEmptyRow(g) ==
  LET empty == {k \in 1..getLastRow(g) : ~RowHasContent(g[k])}
  IN IF empty = {} THEN getLastRow(g) + 1 ELSE CHOOSE k \in empty : \A q \in empty : k <= q

\* C22 as stated: submitForm succeeds on every Data_Base sheet, the empty
\* one included; it puts the record in the next empty row and leaves every
\* other row as it was.
C22_StoredInNextEmptyRow ==
  ev.kind = "submitForm" =>
    /\ ok
    /\ getValues(sheets[formSheet], NextEmptyRow(pre[formSheet]), 1, 1,
                 Len(FormRecord(ev.data)))[1] = FormRecord(ev.data)
    /\ \A k \in 1..Len(pre[formSheet]) :
         k # NextEmptyRow(pre[formSheet]) => sheets[formSheet][k] = pre[formSheet][k]

\* C23: after a run of setupTriggers, whatever the number of runs before it,
\* the project has exactly one installable trigger whose handler is onEdit.
C23_OneEditTrigger ==
  ev.kind = "setupTriggers" => Len(SelectSeq(triggers, IsOnEdit)) = 1

C23_Witness ==
  /\ ev.kind = "setupTriggers"
  /\ Entry("deleteTrigger", "onEdit") \in RangeOf(log)
  /\ triggers = <<"onEdit">>

\* The calls `op` of the runs of the last event
Calls(op) == {i \in 1..Len(log) : log[i].op = op}

\* C26 as stated: an edit is handled by one run of onEdit, also when
\* setupTriggers has run: a status edit naming a sheet appends one row and
\* deletes one, and an edit of the control range causes one syncSheets pass.
C26_HandledOnce ==
  ev.kind = "edit" =>
    /\ Cardinality(Calls("appendRow")) = (IF MoveAttempted THEN 1 ELSE 0)
    /\ Cardinality(Calls("deleteRow")) = (IF MoveAttempted THEN 1 ELSE 0)
    /\ Cardinality(Calls("syncSheets")) = (IF InControlRange THEN 1 ELSE 0)

\* The values of a row, up to its last value
RowContent(row) ==
  LET used == {c \in 1..Len(row) : row[c].v # ""}
  IN [c \in 1..(IF used = {} THEN 0 ELSE CHOOSE c \in used : \A q \in used : q <= c) |->
        row[c].v]

HoldsRow(g, vals) == \E k \in 1..Len(g) : RowContent(g[k]) = vals

\* C24: a run in which no call fails loses no row.  Every row of values that
\* a sheet held when the run started is, after the run, in the DataSaver
\* sheet when the run deleted the sheet, in the sheet named by the status
\* when the run moved the row, and in its own sheet otherwise.  (The rows a
\* run starts from are those the runs before it left, so no row is lost over
\* a sequence of runs.)
C24_NoRowLost ==
  (ok /\ ev.fault = NoFault) =>
    \A T \in DOMAIN pre : \A r \in 1..Len(pre[T]) :
      RowHasContent(pre[T][r]) =>
        IF T \in Deleted
          THEN HoldsRow(Archive, RowContent(pre[T][r]))
        ELSE IF MoveAttempted /\ T = ev.sheet /\ r = ev.row
          THEN HoldsRow(sheets[StatusTyped], RowContent(pre[T][r]))
        ELSE T \in DOMAIN sheets /\ HoldsRow(sheets[T], RowContent(pre[T][r]))

C24_Witness ==
  /\ ok /\ ev.fault = NoFault
  /\ "Shipped" \in Deleted
  /\ \E k \in 1..Len(Archive) :
       /\ HeaderAt(Archive, k, "Shipped")
       /\ \E r \in (k + 1)..Len(Archive) :
            RowContent(Archive[r]) = <<"o2", "", "", "", "Shipped", "note">>

\* The values of the control range of grid g
ControlRange(g) ==
  [i \in nameStartRow..nameEndRow |-> CellAt(g, i, nameColumn).v]

\* C28 as stated: a run of onEdit for an edit of the status column, whatever
\* the value typed and whatever the sheet edited, leaves the values of the
\* control range and every row that the DataSaver sheet had as they were.
C28_MigrationFrame ==
  (ev.kind = "edit" /\ ev.col = StatusColumn) =>
    /\ controlSheet \in DOMAIN pre =>
         ControlRange(sheets[controlSheet]) = ControlRange(pre[controlSheet])
    /\ dataSaverSheet \in DOMAIN pre =>
         \A k \in 1..Len(pre[dataSaverSheet]) :
           CellAt(sheets[dataSaverSheet], k, 1) = CellAt(pre[dataSaverSheet], k, 1)
           /\ RowContent(sheets[dataSaverSheet][k]) = RowContent(pre[dataSaverSheet][k])

\* C25 as stated: the run of onEdit for a pending status edit that names a
\* sheet moves the row the user edited: that row is then the last row of
\* the sheet named, and is no longer in the edited sheet when the two differ.
C25_MovesEditedRow ==
  (ev.kind = "queued" /\ ev.val \in DOMAIN pre) =>
    /\ CellAt(sheets[ev.val], getLastRow(sheets[ev.val]), 1).v = ev.id
    /\ ev.val # ev.sheet =>
         \A k \in 1..Len(sheets[ev.sheet]) : CellAt(sheets[ev.sheet], k, 1).v # ev.id

\* C27 as stated: the run of onEdit deletes a row only in the sheet of the
\* edited range, the row it appends is the edited row of that sheet, and
\* it runs syncSheets exactly when the edited range is in the control range
\* of the control sheet, whatever sheet is active.
C27_SourceIsEditedSheet ==
  ev.kind = "edit" =>
    /\ \A i \in 1..Len(log) : log[i].op = "deleteRow" => log[i].sheet = ev.sheet
    /\ (MoveAttempted /\ ok) =>
         RowContent(sheets[StatusTyped][getLastRow(sheets[StatusTyped])]) =
           RowContent(pre[ev.sheet][ev.row])
    /\ PassRan <=> InControlRange

\* A backup of the last run wrote the first cell of its record
BackupStarted == \E T \in DOMAIN pre : Includes(log, Entry("setTimestamp", T))

\* C29: the archive is append-only under reconciliation.  Every cell of
\* every row the DataSaver sheet used when the run started (rows 1 to its
\* last row with content) has the value and background it had, whether the
\* backups of the run returned or one of their calls failed: what the
\* backups write is below the previous last used row.
C29_ArchiveAppendOnly ==
  (dataSaverSheet \in DOMAIN pre /\ dataSaverSheet \in DOMAIN sheets) =>
    \A k \in 1..getLastRow(pre[dataSaverSheet]) :
      \A c \in 1..Max(GridWidth(Archive, 1, 1, <<>>),
                      GridWidth(pre[dataSaverSheet], 1, 1, <<>>)) :
        CellAt(Archive, k, c) = CellAt(pre[dataSaverSheet], k, c)

\* A backup wrote to a DataSaver sheet that already held a record
C29_Witness ==
  /\ dataSaverSheet \in DOMAIN pre
  /\ getLastRow(pre[dataSaverSheet]) > 1
  /\ BackupStarted
  /\ BackedUp # {}
  /\ getLastRow(Archive) > getLastRow(pre[dataSaverSheet])

\* C30 as stated: manualSync shows its success message only when the
\* synchronisation was performed: the alert "synced" is in the run's calls
\* only if syncSheets reached its end.
C30_SuccessOnlyIfSynced ==
  (ev.kind = "manualSync" /\ Includes(log, Entry("alert", "synced"))) => PassCompleted
====
